---- MODULE Spec2Model ----
(***************************************************************************)
(* A model of ceyal: the Task state machine with its time accounting       *)
(* (task_manager.py, class Task), the TaskManager store with its           *)
(* load / mutate / save session (class TaskManager) and the command        *)
(* handlers of ceyal.py that drive them.                                   *)
(*                                                                         *)
(* Time is counted in milliseconds (datetime keeps microseconds; the model *)
(* reads the clock to the millisecond so that a day fits a 32-bit integer);*)
(* a duration (timedelta.total_seconds()) is its number of milliseconds.   *)
(* None is the empty sequence <<>> and a present optional value v is <<v>>.*)
(*                                                                         *)
(* Four specifications share the variables:                                *)
(*   Spec       successive processes, each a with-block session on the     *)
(*              durable file (load, calls, save);                          *)
(*   SpecTask   one new Task and calls of its methods as the clock runs;   *)
(*   SpecStore  one TaskManager holding any store of up to three tasks,    *)
(*              and one call on it;                                        *)
(*   SpecTwo    two processes on one durable file, save_tasks in the steps *)
(*              another process can come between.                          *)
(***************************************************************************)
EXTENDS Integers, Sequences, FiniteSets, TLC

\* ------------------------------------------------------------------ bounds

\* Spec: at most MaxCalls calls are made on the store and its tasks, over all runs.
MaxCalls == 3
\* SpecTask: the task is resumed only while it has fewer than MaxStarts starts.
MaxStarts == 3

\* What the clock reads: a time with no fraction of a second, the next
\* millisecond, and the full second after.
ClockValues == {0, 1, 1000}

\* SpecTask: the clock also reads two instants in between.
TaskClockValues == ClockValues \cup {3, 999}

\* ------------------------------------------------------------------ state

VARIABLES
    now,      \* the wall clock, dt.datetime.now()
    tasks,    \* TaskManager.tasks: id -> Task
    file,     \* the durable file, db_file
    bak,      \* the backup file, db_file + ".bak"
    pc,       \* where the process is: "idle", "body" (inside the with block), "raised"
    exc,      \* the exception the command raised inside the with block, <<>> if none
    saves,    \* save_tasks calls made by the current process
    result,   \* the last with statement or call: the step, what it raised and printed
    calls,    \* Spec: calls made so far on the store and its tasks
    last,     \* the last step taken and its arguments (constant in Spec)
    ran       \* SpecTask only: the time the clock advanced while the task was ongoing
\* In SpecTwo tasks, pc, exc, saves and result hold one value per process.

vars == <<now, tasks, file, bak, pc, exc, saves, result, calls, last, ran>>

\* ------------------------------------------------------------------- Task

PENDING == "pending"
ONGOING == "ongoing"
PAUSED == "paused"
COMPLETED == "completed"

\* Task.__init__: a new task, created at time n.
Task(name, target_time, desc, dead_time, id, n) ==
    [name |-> name, id |-> id, target_time |-> target_time, desc |-> desc,
     dead_time |-> dead_time, created_time |-> n,
     start_times |-> <<>>, pause_times |-> <<>>, is_complete |-> FALSE]

is_running(t) ==
    Len(t.start_times) > Len(t.pause_times) /\ ~t.is_complete

\* status with the test for an empty start_times moved to the front.
status_pending_first(t) ==
    IF t.start_times = <<>> THEN PENDING
    ELSE IF t.is_complete THEN COMPLETED
    ELSE IF is_running(t) THEN ONGOING
    ELSE PAUSED

status(t) ==
    IF t.is_complete THEN COMPLETED
    ELSE IF is_running(t) THEN ONGOING
    ELSE IF t.start_times = <<>> THEN PENDING
    ELSE PAUSED

\* start without the distinction between pending and paused.
start_any_idle(t, n) ==
    IF status(t) \in {PENDING, PAUSED}
    THEN [t EXCEPT !.start_times = Append(@, n)]
    ELSE t

\* resume that puts the new start time at the head of the list.
resume_prepend(t, n) ==
    IF status(t) = PAUSED
    THEN [t EXCEPT !.start_times = <<n>> \o @]
    ELSE t

\* Task.start at clock reading n; the two refusing branches only print.
start(t, n) ==
    IF status(t) = PENDING
    THEN [t EXCEPT !.start_times = Append(@, n)]
    ELSE IF status(t) = ONGOING THEN t
    ELSE t

resume(t, n) ==
    IF status(t) = PAUSED
    THEN [t EXCEPT !.start_times = Append(@, n)]
    ELSE IF status(t) = ONGOING THEN t
    ELSE t

\* pause that tests only is_complete.
pause_unguarded(t, n) ==
    IF ~t.is_complete
    THEN [t EXCEPT !.pause_times = Append(@, n)]
    ELSE t

pause(t, n) ==
    IF status(t) = ONGOING
    THEN [t EXCEPT !.pause_times = Append(@, n)]
    ELSE t

\* complete that closes an interval whenever the task is not paused.
complete_reappend(t, n) ==
    LET closed == IF t.start_times # <<>> /\ status(t) # PAUSED
                  THEN [t EXCEPT !.pause_times = Append(@, n)]
                  ELSE t
    IN  [closed EXCEPT !.is_complete = TRUE]

\* complete that returns early on a pending task too.
complete_skip_pending(t, n) ==
    LET closed == IF status(t) = ONGOING
                  THEN [t EXCEPT !.pause_times = Append(@, n)]
                  ELSE t
    IN  IF status(closed) \in {COMPLETED, PENDING} THEN closed
        ELSE [closed EXCEPT !.is_complete = TRUE]

\* complete that leaves the open interval open.
complete_open(t, n) ==
    IF status(t) = COMPLETED THEN t
    ELSE [t EXCEPT !.is_complete = TRUE]

\* Task.complete: the status is read again after the open interval is closed.
complete(t, n) ==
    LET closed == IF status(t) = ONGOING
                  THEN [t EXCEPT !.pause_times = Append(@, n)]
                  ELSE t
    IN  IF status(closed) = COMPLETED THEN closed
        ELSE [closed EXCEPT !.is_complete = TRUE]

Min(a, b) == IF a <= b THEN a ELSE b

\* The loop over zip(start_times, pause_times): the first k pairs.
RECURSIVE zip_sum(_, _, _)
zip_sum(starts, pauses, k) ==
    IF k = 0 THEN 0
    ELSE zip_sum(starts, pauses, k - 1) + (pauses[k] - starts[k])

\* active_time without the open interval.
active_time_closed_only(t, n) ==
    zip_sum(t.start_times, t.pause_times,
            Min(Len(t.start_times), Len(t.pause_times)))

\* elapsed_time counted from the last start.
elapsed_time_last_start(t, n) ==
    IF t.start_times = <<>> THEN 0 ELSE n - t.start_times[Len(t.start_times)]

active_time(t, n) ==
    zip_sum(t.start_times, t.pause_times,
            Min(Len(t.start_times), Len(t.pause_times)))
    + (IF is_running(t) THEN n - t.start_times[Len(t.start_times)] ELSE 0)

elapsed_time(t, n) ==
    IF t.start_times = <<>> THEN 0 ELSE n - t.start_times[1]

\* ------------------------------------------------------------ persistence

\* datetime.isoformat(): the seconds, and the fraction only when it is not zero.
isoformat(t) ==
    [sec |-> t \div 1000,
     frac |-> IF t % 1000 = 0 THEN <<>> ELSE <<t % 1000>>]

\* datetime.fromisoformat()
fromisoformat(s) ==
    s.sec * 1000 + (IF s.frac = <<>> THEN 0 ELSE s.frac[1])

\* "x.isoformat() if x else None": a datetime is always true.
iso_or_none(x) == IF x # <<>> THEN <<isoformat(x[1])>> ELSE <<>>

\* "fromisoformat(s) if s else None": a non-empty string is true.
parse_or_none(s) == IF s # <<>> THEN <<fromisoformat(s[1])>> ELSE <<>>

to_dict(t) ==
    [name |-> t.name, id |-> t.id,
     target_time |-> iso_or_none(t.target_time),
     desc |-> t.desc,
     dead_time |-> iso_or_none(t.dead_time),
     created_time |-> isoformat(t.created_time),
     start_times |-> [i \in DOMAIN t.start_times |-> isoformat(t.start_times[i])],
     pause_times |-> [i \in DOMAIN t.pause_times |-> isoformat(t.pause_times[i])],
     is_complete |-> t.is_complete]

\* The keys from_dict reads with data[...]: a missing one raises KeyError.
TaskKeys ==
    {"name", "id", "target_time", "desc", "dead_time", "created_time",
     "start_times", "pause_times", "is_complete"}

from_dict_raises(data) == ~(TaskKeys \subseteq DOMAIN data)

\* from_dict that keeps the created_time the constructor set.
from_dict_created_now(data, n) ==
    LET task == Task(data.name, parse_or_none(data.target_time), data.desc,
                     parse_or_none(data.dead_time), data.id, n)
    IN  [task EXCEPT
            !.start_times = [i \in DOMAIN data.start_times |->
                                fromisoformat(data.start_times[i])],
            !.pause_times = [i \in DOMAIN data.pause_times |->
                                fromisoformat(data.pause_times[i])],
            !.is_complete = data.is_complete]

\* Task.from_dict at clock reading n: the constructor stamps created_time
\* with n, and the stored value then replaces it.
from_dict(data, n) ==
    LET task == Task(data.name, parse_or_none(data.target_time), data.desc,
                     parse_or_none(data.dead_time), data.id, n)
    IN  [task EXCEPT
            !.created_time = fromisoformat(data.created_time),
            !.start_times = [i \in DOMAIN data.start_times |->
                                fromisoformat(data.start_times[i])],
            !.pause_times = [i \in DOMAIN data.pause_times |->
                                fromisoformat(data.pause_times[i])],
            !.is_complete = data.is_complete]

\* A file is missing, holds text that is not JSON ("malformed"), or holds a
\* JSON object ("json") whose value is data.
NoFile == [kind |-> "missing", data |-> <<>>]
Malformed == [kind |-> "malformed", data |-> <<>>]
JsonFile(d) == [kind |-> "json", data |-> d]
\* Bytes that are no text in the encoding open() reads with.
Undecodable == [kind |-> "undecodable", data |-> <<>>]
\* A file of no bytes, as open(db_file, 'w') leaves it until the dump is
\* flushed.
Empty == [kind |-> "empty", data |-> <<>>]
\* A backup path shutil.copy cannot write to (no permission, or a link to the
\* durable file itself).
Unwritable == [kind |-> "unwritable", data |-> <<>>]

\* shutil.copy(db_file, backup_path): the source is opened first, then the
\* destination; on success the backup holds what the durable file holds.
copy(f, b) ==
    IF f.kind = "missing"
    THEN [raised |-> <<"FileNotFoundError">>, bak |-> b]
    ELSE IF b.kind = "unwritable"
    THEN [raised |-> <<"PermissionError">>, bak |-> b]
    ELSE [raised |-> <<>>, bak |-> f]

\* save_tasks that copies after it has written.
save_tasks_backup_after(tsk, f, b) ==
    LET written == JsonFile([tid \in DOMAIN tsk |-> to_dict(tsk[tid])])
    IN  [raised |-> <<>>, bak |-> written, file |-> written]

\* TaskManager.save_tasks: the FileNotFoundError of shutil.copy is passed
\* over, any other exception of it leaves save_tasks before the durable file
\* is opened; then the whole mapping is dumped over the file.
save_tasks(tsk, f, b) ==
    LET copied == copy(f, b)
    IN  IF copied.raised \notin {<<>>, <<"FileNotFoundError">>}
        THEN [raised |-> copied.raised, bak |-> copied.bak, file |-> f]
        ELSE [raised |-> <<>>, bak |-> copied.bak,
              file |-> JsonFile([tid \in DOMAIN tsk |-> to_dict(tsk[tid])])]

\* TaskManager.load_tasks at clock reading n: FileNotFoundError and
\* JSONDecodeError give the empty mapping; the UnicodeDecodeError of read()
\* and an exception of from_dict are not caught and leave self.tasks as
\* __init__ set it.
load_tasks(f, n) ==
    IF f.kind \in {"missing", "malformed", "empty"}
    THEN [raised |-> <<>>, tasks |-> <<>>]
    ELSE IF f.kind = "undecodable"
    THEN [raised |-> <<"UnicodeDecodeError">>, tasks |-> <<>>]
    ELSE IF \E tid \in DOMAIN f.data : from_dict_raises(f.data[tid])
    THEN [raised |-> <<"KeyError">>, tasks |-> <<>>]
    ELSE [raised |-> <<>>,
          tasks |-> [tid \in DOMAIN f.data |-> from_dict(f.data[tid], n)]]

\* ------------------------------------------------------------------ store

\* uuid4().hex, shortened to two digits; the ids share their first digit.
Ids == {<<0, 0>>, <<0, 1>>}

\* What a user may type for an id: any leading part of an id, or no id at all.
Prefixes == {<<>>, <<0>>, <<1>>, <<0, 0>>, <<0, 1>>, <<1, 0>>, <<1, 1>>}

\* str.startswith
startswith(tid, p) ==
    Len(p) <= Len(tid) /\ \A i \in 1 .. Len(p) : tid[i] = p[i]

\* The arguments of an add command: target, desc and dead, each optional.
AddArgs ==
    {[target |-> <<>>, desc |-> <<>>, dead |-> <<>>],
     [target |-> <<1000>>, desc |-> <<"note">>, dead |-> <<1>>]}

\* TaskManager.add, with the id uuid4 drew and the clock reading n.
add(tsk, name, target_time, desc, dead_time, id, n) ==
    [tid \in DOMAIN tsk \cup {id} |->
        IF tid = id THEN Task(name, target_time, desc, dead_time, id, n)
        ELSE tsk[tid]]

\* remove that passes over an absent id, as dict.pop(task_id, None) does.
remove_quiet(tsk, task_id) ==
    [raised |-> <<>>,
     tasks |-> [tid \in DOMAIN tsk \ {task_id} |-> tsk[tid]]]

\* TaskManager.remove; the caller sees KeyError when the id is absent.
remove(tsk, task_id) ==
    IF task_id \in DOMAIN tsk
    THEN [raised |-> <<>>, tasks |-> [tid \in DOMAIN tsk \ {task_id} |-> tsk[tid]]]
    ELSE [raised |-> <<"KeyError">>, tasks |-> tsk]

\* find_task_by_partial: the ids that start with partial_id.
matches(tsk, partial_id) == {tid \in DOMAIN tsk : startswith(tid, partial_id)}

\* find_task_by_partial that tests only for no match and returns matches[0].
find_task_by_partial_first(tsk, partial_id) ==
    LET m == matches(tsk, partial_id)
    IN  IF Cardinality(m) = 0
        THEN [raised |-> <<"SystemExit">>, printed |-> <<"No task found">>,
              id |-> <<>>]
        ELSE [raised |-> <<>>, printed |-> <<>>,
              id |-> <<CHOOSE tid \in m : TRUE>>]

\* find_task_by_partial: the task of the one id that starts with partial_id;
\* with no such id, and with several, a message is printed and sys.exit(1)
\* is called.
find_task_by_partial(tsk, partial_id) ==
    LET m == matches(tsk, partial_id)
    IN  IF Cardinality(m) = 0
        THEN [raised |-> <<"SystemExit">>, printed |-> <<"No task found">>,
              id |-> <<>>]
        ELSE IF Cardinality(m) > 1
        THEN [raised |-> <<"SystemExit">>, printed |-> <<"Ambiguous ID">>,
              id |-> <<>>]
        ELSE [raised |-> <<>>, printed |-> <<>>,
              id |-> <<CHOOSE tid \in m : TRUE>>]

\* The one task method a state-change command names.
apply(cmd, t, n) ==
    CASE cmd = "start" -> start(t, n)
      [] cmd = "pause" -> pause(t, n)
      [] cmd = "resume" -> resume(t, n)
      [] cmd = "complete" -> complete(t, n)

Commands == {"start", "pause", "resume", "complete"}

\* dt.timedelta(days=1), in milliseconds.
OneDay == 86400000

\* handle_state_change at clock reading n: the lookup, then the method the
\* command names on the task found; sys.exit leaves before any method runs.
handle_state_change(tsk, cmd, partial_id, n) ==
    LET found == find_task_by_partial(tsk, partial_id)
    IN  IF found.raised # <<>>
        THEN [raised |-> found.raised, printed |-> found.printed, tasks |-> tsk]
        ELSE [raised |-> <<>>, printed |-> <<>>,
              tasks |-> [tsk EXCEPT ![found.id[1]] = apply(cmd, @, n)]]

\* handle_add: the default target is read from the clock (n1) before
\* Task.__init__ reads the clock (n2) for created_time.
handle_add(tsk, a, id, n1, n2) ==
    add(tsk, "A", IF a.target = <<>> THEN <<n1 + OneDay>> ELSE a.target,
        a.desc, a.dead, id, n2)

\* sorted(..., key=created_time) is stable: insert places a task behind the
\* tasks already placed that were created no later than it.
insert(placed, tid, tsk) ==
    LET behind == {i \in 1 .. Len(placed) :
                     tsk[placed[i]].created_time > tsk[tid].created_time}
        k == IF behind = {} THEN Len(placed) + 1
             ELSE CHOOSE i \in behind : \A j \in behind : i <= j
    IN  SubSeq(placed, 1, k - 1) \o <<tid>> \o SubSeq(placed, k, Len(placed))

\* sorted over the first k ids of order, the iteration order of the dict.
RECURSIVE sorted(_, _, _)
sorted(order, tsk, k) ==
    IF k = 0 THEN <<>> ELSE insert(sorted(order, tsk, k - 1), order[k], tsk)

\* Whether list_all prints task t.
listed(t, show_all, filter_status) ==
    /\ ~(filter_status # <<>> /\ status(t) # filter_status[1])
    /\ ~(~show_all /\ filter_status = <<>> /\ status(t) = COMPLETED)

\* list_all that hides completed tasks whenever show_all is false.
list_all_hide_completed(tsk, order, show_all, filter_status) ==
    LET hidden(tid) ==
            \/ filter_status # <<>> /\ status(tsk[tid]) # filter_status[1]
            \/ ~show_all /\ status(tsk[tid]) = COMPLETED
        keep(tid) == ~hidden(tid)
    IN  SelectSeq(sorted(order, tsk, Len(order)), keep)

\* TaskManager.list_all: the ids of the tasks printed, in the order printed.
list_all(tsk, order, show_all, filter_status) ==
    LET keep(tid) == listed(tsk[tid], show_all, filter_status)
    IN  SelectSeq(sorted(order, tsk, Len(order)), keep)

\* ------------------------------------------------------------------ steps

\* The clock moves on.
Tick ==
    /\ \E n \in ClockValues : n > now /\ now' = n
    /\ UNCHANGED <<tasks, file, bak, pc, exc, saves, result, calls, last, ran>>

\* main: TaskManager() and __enter__. An exception of load_tasks leaves the
\* with statement before its body and before __exit__ is bound to run.
Enter ==
    /\ pc = "idle"
    /\ LET got == load_tasks(file, now)
       IN  /\ tasks' = got.tasks
           /\ pc' = IF got.raised = <<>> THEN "body" ELSE "idle"
           /\ result' = [at |-> "enter", raised |-> got.raised]
    /\ exc' = <<>>
    /\ saves' = 0
    /\ UNCHANGED <<now, file, bak, calls, last, ran>>

\* handle_add: now() is read for the default target, then again by Task().
HandleAdd ==
    /\ pc = "body"
    /\ calls < MaxCalls
    /\ calls' = calls + 1
    /\ \E a \in AddArgs, id \in Ids \ DOMAIN tasks, n \in ClockValues :
        /\ n >= now
        /\ now' = n
        /\ tasks' = handle_add(tasks, a, id, now, n)
    /\ UNCHANGED <<file, bak, pc, exc, saves, result, last, ran>>

\* TaskManager.add called with no target time.
Add ==
    /\ pc = "body"
    /\ calls < MaxCalls
    /\ calls' = calls + 1
    /\ \E id \in Ids \ DOMAIN tasks :
        /\ tasks' = add(tasks, "A", <<>>, <<>>, <<>>, id, now)
    /\ UNCHANGED <<now, file, bak, pc, exc, saves, result, last, ran>>

\* handle_state_change: sys.exit(1) unless exactly one id matches.
HandleStateChange ==
    /\ pc = "body"
    /\ calls < MaxCalls
    /\ calls' = calls + 1
    /\ \E cmd \in Commands, p \in Prefixes :
        LET got == handle_state_change(tasks, cmd, p, now)
        IN  /\ tasks' = got.tasks
            /\ pc' = IF got.raised = <<>> THEN "body" ELSE "raised"
            /\ exc' = got.raised
    /\ UNCHANGED <<now, file, bak, saves, result, last, ran>>

\* TaskManager.remove called with a full id.
Remove ==
    /\ pc = "body"
    /\ calls < MaxCalls
    /\ calls' = calls + 1
    /\ \E id \in Ids :
        LET got == remove(tasks, id)
        IN  /\ tasks' = got.tasks
            /\ pc' = IF got.raised = <<>> THEN "body" ELSE "raised"
            /\ exc' = got.raised
    /\ UNCHANGED <<now, file, bak, saves, result, last, ran>>

\* __exit__ returning True on every path.
exit_suppresses(e) == TRUE

\* The value __exit__ returns: False when an exception came in, else True.
exit_returns(e) == IF e # <<>> THEN FALSE ELSE TRUE

\* TaskManager.__exit__ and the end of main: save, then the exception of the
\* body goes on to the caller unless __exit__ returned True; an exception of
\* save_tasks leaves __exit__ in its place.
Exit ==
    /\ pc \in {"body", "raised"}
    /\ LET saved == save_tasks(tasks, file, bak)
       IN  /\ file' = saved.file
           /\ bak' = saved.bak
           /\ result' = [at |-> "exit",
                         raised |-> IF saved.raised # <<>> THEN saved.raised
                                    ELSE IF exc # <<>> /\ ~exit_returns(exc)
                                    THEN exc ELSE <<>>]
    /\ saves' = saves + 1
    /\ pc' = "idle"
    /\ UNCHANGED <<now, tasks, exc, calls, last, ran>>

\* A backup an earlier save left: the dump of a store of one task.
ValidBackup ==
    JsonFile(<<0, 0>> :> to_dict(Task("A", <<>>, <<>>, <<>>, <<0, 0>>, 0)))

\* What the first run may find in place of a durable file it wrote itself,
\* with the backup beside it: nothing, bytes that are no text, text that is
\* no JSON (with or without a backup of better days), or a JSON object whose
\* record lacks keys.
FoundFiles ==
    {[file |-> NoFile, bak |-> NoFile],
     [file |-> Undecodable, bak |-> NoFile],
     [file |-> Malformed, bak |-> NoFile],
     [file |-> Malformed, bak |-> ValidBackup],
     [file |-> JsonFile(<<0, 0>> :> [name |-> "A"]), bak |-> NoFile]}

Init ==
    /\ now = 0
    /\ tasks = <<>>
    /\ \E found \in FoundFiles :
        /\ file = found.file
        /\ bak = found.bak
    /\ pc = "idle"
    /\ exc = <<>>
    /\ saves = 0
    /\ result = [at |-> "none", raised |-> <<>>]
    /\ last = [op |-> "none", from |-> "none"]
    /\ calls = 0
    /\ ran = 0

Next ==
    \/ Tick
    \/ Enter
    \/ HandleAdd
    \/ Add
    \/ HandleStateChange
    \/ Remove
    \/ Exit

Spec == Init /\ [][Next]_vars

\* ------------------------------------------------- one task, called directly

\* The one task of SpecTask.
TheId == <<0, 0>>
the_task == tasks[TheId]

\* The clock moves on; ran grows by the advance while the task is ongoing.
TickTask ==
    /\ \E n \in TaskClockValues :
        /\ n > now
        /\ now' = n
        /\ ran' = ran + (IF status(the_task) = ONGOING THEN n - now ELSE 0)
    /\ last' = [op |-> "tick", from |-> status(the_task)]
    /\ UNCHANGED <<tasks, file, bak, pc, exc, saves, result, calls>>

CallStart ==
    /\ tasks' = [tasks EXCEPT ![TheId] = start(@, now)]
    /\ last' = [op |-> "start", from |-> status(the_task)]
    /\ UNCHANGED <<now, file, bak, pc, exc, saves, result, calls, ran>>

CallResume ==
    /\ Len(the_task.start_times) < MaxStarts
    /\ tasks' = [tasks EXCEPT ![TheId] = resume(@, now)]
    /\ last' = [op |-> "resume", from |-> status(the_task)]
    /\ UNCHANGED <<now, file, bak, pc, exc, saves, result, calls, ran>>

CallPause ==
    /\ tasks' = [tasks EXCEPT ![TheId] = pause(@, now)]
    /\ last' = [op |-> "pause", from |-> status(the_task)]
    /\ UNCHANGED <<now, file, bak, pc, exc, saves, result, calls, ran>>

CallComplete ==
    /\ tasks' = [tasks EXCEPT ![TheId] = complete(@, now)]
    /\ last' = [op |-> "complete", from |-> status(the_task)]
    /\ UNCHANGED <<now, file, bak, pc, exc, saves, result, calls, ran>>

\* A task that has just been constructed, at any reading of the clock.
InitTask ==
    /\ now \in TaskClockValues
    /\ tasks = add(<<>>, "A", <<>>, <<>>, <<>>, TheId, now)
    /\ file = NoFile
    /\ bak = NoFile
    /\ pc = "body"
    /\ exc = <<>>
    /\ saves = 0
    /\ result = [at |-> "enter", raised |-> <<>>]
    /\ calls = 0
    /\ last = [op |-> "none", from |-> "none"]
    /\ ran = 0

NextTask ==
    \/ TickTask
    \/ CallStart
    \/ CallResume
    \/ CallPause
    \/ CallComplete

SpecTask == InitTask /\ [][NextTask]_vars

\* ------------------------------------------- one store, one call on it

\* The ids of the store of SpecStore: two share their first digit.
StoreIds == Ids \cup {<<1, 0>>}

\* A task created at clock reading c and brought to status st by the
\* shortest run of its methods.
Made(id, st, c) ==
    LET t == Task("A", <<>>, <<>>, <<>>, id, c)
    IN  CASE st = PENDING -> t
          [] st = ONGOING -> start(t, c)
          [] st = PAUSED -> pause(start(t, c), 1)
          [] st = COMPLETED -> complete(start(t, c), 1)

\* For up to three ids, a status and a clock reading of creation each.
Picks ==
    UNION {[S -> {PENDING, ONGOING, PAUSED, COMPLETED} \X {0, 1}]
           : S \in SUBSET StoreIds}

\* The orders a dict of these ids may iterate in.
Orders(S) ==
    {o \in [1 .. Cardinality(S) -> S] : \A tid \in S : \E i \in DOMAIN o : o[i] = tid}

\* The durable file and the backup path a save may meet.
SaveFiles ==
    {[file |-> NoFile, bak |-> NoFile],
     [file |-> NoFile, bak |-> Unwritable],
     [file |-> JsonFile(<<>>), bak |-> NoFile],
     [file |-> JsonFile(<<>>), bak |-> Unwritable]}

\* handle_get: the lookup, then printing.
CallGet ==
    /\ pc = "body"
    /\ \E p \in Prefixes :
        LET found == find_task_by_partial(tasks, p)
        IN  /\ result' = [at |-> "get", raised |-> found.raised,
                          printed |-> found.printed \o found.id]
            /\ exc' = found.raised
            /\ pc' = IF found.raised = <<>> THEN "returned" ELSE "raised"
            /\ last' = [op |-> "get", from |-> "store", args |-> p]
    /\ UNCHANGED <<now, tasks, file, bak, saves, calls, ran>>

CallStateChange ==
    /\ pc = "body"
    /\ \E cmd \in Commands, p \in Prefixes :
        LET got == handle_state_change(tasks, cmd, p, now)
        IN  /\ tasks' = got.tasks
            /\ result' = [at |-> cmd, raised |-> got.raised,
                          printed |-> got.printed]
            /\ exc' = got.raised
            /\ pc' = IF got.raised = <<>> THEN "returned" ELSE "raised"
            /\ last' = [op |-> cmd, from |-> "store", args |-> p]
    /\ UNCHANGED <<now, file, bak, saves, calls, ran>>

CallRemove ==
    /\ pc = "body"
    /\ \E id \in StoreIds :
        LET got == remove(tasks, id)
        IN  /\ tasks' = got.tasks
            /\ result' = [at |-> "remove", raised |-> got.raised,
                          printed |-> <<>>]
            /\ exc' = got.raised
            /\ pc' = IF got.raised = <<>> THEN "returned" ELSE "raised"
            /\ last' = [op |-> "remove", from |-> "store", args |-> id]
    /\ UNCHANGED <<now, file, bak, saves, calls, ran>>

\* handle_add; the clock may move on between its reading and the reading of
\* Task.__init__.
CallHandleAdd ==
    /\ pc = "body"
    /\ \E a \in AddArgs, id \in StoreIds \ DOMAIN tasks, n \in ClockValues :
        /\ n >= now
        /\ now' = n
        /\ tasks' = handle_add(tasks, a, id, now, n)
        /\ last' = [op |-> "add", from |-> "store", args |-> a, id |-> id]
    /\ result' = [at |-> "add", raised |-> <<>>, printed |-> <<>>]
    /\ pc' = "returned"
    /\ UNCHANGED <<file, bak, exc, saves, calls, ran>>

CallListAll ==
    /\ pc = "body"
    /\ \E show_all \in BOOLEAN, order \in Orders(DOMAIN tasks),
          filter_status \in {<<>>, <<PENDING>>, <<ONGOING>>, <<PAUSED>>,
                             <<COMPLETED>>} :
        /\ result' = [at |-> "list_all", raised |-> <<>>,
                      printed |-> list_all(tasks, order, show_all, filter_status)]
        /\ last' = [op |-> "list_all", from |-> "store",
                    args |-> [order |-> order, show_all |-> show_all,
                              filter_status |-> filter_status]]
    /\ pc' = "returned"
    /\ UNCHANGED <<now, tasks, file, bak, exc, saves, calls, ran>>

CallSave ==
    /\ pc = "body"
    /\ LET saved == save_tasks(tasks, file, bak)
       IN  /\ file' = saved.file
           /\ bak' = saved.bak
           /\ result' = [at |-> "save_tasks", raised |-> saved.raised,
                         printed |-> <<>>]
           /\ exc' = saved.raised
           /\ pc' = IF saved.raised = <<>> THEN "returned" ELSE "raised"
    /\ saves' = saves + 1
    /\ last' = [op |-> "save_tasks", from |-> "store", args |-> <<>>]
    /\ UNCHANGED <<now, tasks, calls, ran>>

\* A TaskManager inside its with block, holding any of the stores, beside
\* any of the files.
InitStore ==
    /\ now = 1
    /\ \E pick \in Picks :
        tasks = [tid \in DOMAIN pick |-> Made(tid, pick[tid][1], pick[tid][2])]
    /\ \E found \in SaveFiles :
        /\ file = found.file
        /\ bak = found.bak
    /\ pc = "body"
    /\ exc = <<>>
    /\ saves = 0
    /\ result = [at |-> "enter", raised |-> <<>>]
    /\ calls = 0
    /\ last = [op |-> "none", from |-> "none"]
    /\ ran = 0

NextStore ==
    \/ CallGet
    \/ CallStateChange
    \/ CallRemove
    \/ CallHandleAdd
    \/ CallListAll
    \/ CallSave

SpecStore == InitStore /\ [][NextStore]_vars

\* ------------------------------------ two processes on one durable file

Procs == {1, 2}
Other(p) == CHOOSE q \in Procs : q # p

\* The id uuid4 gives the task a process adds: never that of another task.
NewId(p) == <<0, p - 1>>

\* The file the two processes find: none, or the dump of one task.
SharedFiles == {NoFile, ValidBackup}

\* open(db_file, 'w') that does not truncate, as mode 'r+' would.
opened_keep(c) == c

\* What open(db_file, 'w') leaves in the file: nothing.
opened(c) == Empty

\* What the file may hold once the text b is written from offset 0 of a file
\* holding c: b when c is no longer than b; b and then the rest of c, which
\* is no JSON, when c is longer. A dump is no longer than a dump of a
\* mapping with the same records and more; other lengths are not known.
written_over(c, b) ==
    IF c.kind \in {"missing", "empty"} THEN {b}
    ELSE IF c.kind = "json" /\ DOMAIN c.data \subseteq DOMAIN b.data THEN {b}
    ELSE IF c.kind = "json" /\ DOMAIN b.data \subseteq DOMAIN c.data
    THEN {Malformed}
    ELSE {b, Malformed}

\* __enter__ of process p.
EnterP(p) ==
    /\ pc[p] = "idle"
    /\ LET got == load_tasks(file, now)
       IN  /\ tasks' = [tasks EXCEPT ![p] = got.tasks]
           /\ result' = [result EXCEPT ![p] = [at |-> "enter", raised |-> got.raised]]
    /\ pc' = [pc EXCEPT ![p] = "body"]
    /\ UNCHANGED <<now, file, bak, exc, saves, calls, last, ran>>

\* The one command of process p: an add, a remove, or one that changes
\* nothing.
CommandP(p) ==
    /\ pc[p] = "body"
    /\ \/ tasks' = [tasks EXCEPT ![p] = add(@, "A", <<>>, <<>>, <<>>, NewId(p), now)]
       \/ \E id \in DOMAIN tasks[p] :
            tasks' = [tasks EXCEPT ![p] = remove(@, id).tasks]
       \/ UNCHANGED tasks
    /\ pc' = [pc EXCEPT ![p] = "ran"]
    /\ UNCHANGED <<now, file, bak, exc, saves, result, calls, last, ran>>

\* save_tasks of process p, first step: the backup copy.
CopyP(p) ==
    /\ pc[p] = "ran"
    /\ bak' = copy(file, bak).bak
    /\ pc' = [pc EXCEPT ![p] = "copied"]
    /\ UNCHANGED <<now, tasks, file, exc, saves, result, calls, last, ran>>

\* save_tasks of process p, second step: open(db_file, 'w'). The saves
\* overlap when the other process has the file open.
OpenP(p) ==
    /\ pc[p] = "copied"
    /\ file' = opened(file)
    /\ pc' = [pc EXCEPT ![p] = "opened"]
    /\ last' = [op |-> "open", from |-> p,
                overlap |-> last.overlap \/ pc[Other(p)] = "opened"]
    /\ UNCHANGED <<now, tasks, bak, exc, saves, result, calls, ran>>

\* save_tasks of process p, last step: the dump reaches the file when it is
\* closed; __exit__ returns and the process ends.
WriteP(p) ==
    /\ pc[p] = "opened"
    /\ file' \in written_over(file, JsonFile([tid \in DOMAIN tasks[p] |-> to_dict(tasks[p][tid])]))
    /\ pc' = [pc EXCEPT ![p] = "done"]
    /\ saves' = [saves EXCEPT ![p] = @ + 1]
    /\ result' = [result EXCEPT ![p] = [at |-> "exit", raised |-> <<>>]]
    /\ last' = [op |-> "write", from |-> p, overlap |-> last.overlap]
    /\ UNCHANGED <<now, tasks, bak, exc, calls, ran>>

\* Two processes started on the same file; tasks, pc, exc, saves and result
\* hold one value for each.
InitTwo ==
    /\ now = 0
    /\ tasks = [p \in Procs |-> <<>>]
    /\ file \in SharedFiles
    /\ bak = NoFile
    /\ pc = [p \in Procs |-> "idle"]
    /\ exc = [p \in Procs |-> <<>>]
    /\ saves = [p \in Procs |-> 0]
    /\ result = [p \in Procs |-> [at |-> "none", raised |-> <<>>]]
    /\ calls = 0
    /\ last = [op |-> "none", from |-> 0, overlap |-> FALSE]
    /\ ran = 0

NextTwo ==
    \E p \in Procs :
        \/ EnterP(p)
        \/ CommandP(p)
        \/ CopyP(p)
        \/ OpenP(p)
        \/ WriteP(p)

SpecTwo == InitTwo /\ [][NextTwo]_vars

\* ----------------------------------------------------------------- claims

\* C1: after every sequence of start, pause, resume and complete calls on a
\* new task, len(pause_times) <= len(start_times) <= len(pause_times) + 1.
C1_PauseStartLengths ==
    /\ Len(the_task.pause_times) <= Len(the_task.start_times)
    /\ Len(the_task.start_times) <= Len(the_task.pause_times) + 1

\* A resume call has made start_times one longer than pause_times again.
C1_Witness ==
    /\ Len(the_task.start_times) = Len(the_task.pause_times) + 1
    /\ Len(the_task.pause_times) >= 1
    /\ last.op = "resume"
    /\ last.from = PAUSED

\* C2: a start call on a task that is not pending, a resume call on a task
\* that is not paused and a pause call on a task that is not ongoing change no
\* field of the task.
C2_IllegalCallsChangeNothing ==
    [][(\/ last'.op = "start" /\ status(the_task) # PENDING
        \/ last'.op = "resume" /\ status(the_task) # PAUSED
        \/ last'.op = "pause" /\ status(the_task) # ONGOING)
       => tasks' = tasks]_vars

\* start was called on a paused task.
C2_Witness ==
    /\ last.op = "start"
    /\ last.from = PAUSED
    /\ status(the_task) = PAUSED

\* C3: a complete call on a task that is already completed changes no field
\* of it, so calling complete twice leaves what calling it once left.
C3_CompleteIdempotent ==
    [][last'.op = "complete" /\ the_task.is_complete => tasks' = tasks]_vars

\* complete was called on a task completed at an earlier clock reading, while
\* it was ongoing.
C3_Witness ==
    /\ last.op = "complete"
    /\ last.from = COMPLETED
    /\ Len(the_task.pause_times) = Len(the_task.start_times)
    /\ the_task.pause_times # <<>>
    /\ the_task.pause_times[Len(the_task.pause_times)] < now

\* C4: a complete call on a task that is not completed sets is_complete; on
\* an ongoing task it appends the clock reading to pause_times, once, which
\* makes the two lists equally long; on a pending or paused task it appends
\* nothing.
C4_CompleteClosesInterval ==
    [][last'.op = "complete" /\ status(the_task) # COMPLETED
       => /\ the_task'.is_complete
          /\ the_task'.start_times = the_task.start_times
          /\ (status(the_task) = ONGOING =>
                /\ the_task'.pause_times = Append(the_task.pause_times, now)
                /\ Len(the_task'.pause_times) = Len(the_task'.start_times))
          /\ (status(the_task) \in {PENDING, PAUSED} =>
                the_task'.pause_times = the_task.pause_times)]_vars

\* complete was called on an ongoing task.
C4_Witness ==
    /\ last.op = "complete"
    /\ last.from = ONGOING
    /\ the_task.is_complete
    /\ Len(the_task.pause_times) = Len(the_task.start_times)

\* The status changes a call may make.
Lifecycle ==
    {<<PENDING, "start", ONGOING>>, <<ONGOING, "pause", PAUSED>>,
     <<PAUSED, "resume", ONGOING>>, <<PENDING, "complete", COMPLETED>>,
     <<ONGOING, "complete", COMPLETED>>, <<PAUSED, "complete", COMPLETED>>}

\* C5: a new task is pending; start on pending gives ongoing, pause on
\* ongoing gives paused, resume on paused gives ongoing, complete on a task
\* not completed gives completed, and the status changes in no other way:
\* is_complete is never reset and a started task is never pending again.
C5_StatusLifecycle ==
    /\ status(the_task) = PENDING
    /\ [][
          /\ \A tr \in Lifecycle :
                (last'.op = tr[2] /\ status(the_task) = tr[1])
                    => (status(the_task') = tr[3])
          /\ (status(the_task') # status(the_task))
                => (<<status(the_task), last'.op, status(the_task')>> \in Lifecycle)
          /\ (the_task.is_complete => the_task'.is_complete)
          /\ (status(the_task) # PENDING => status(the_task') # PENDING)
       ]_vars

\* A task that went through every status: completed from paused after a
\* resume.
C5_Witness ==
    /\ last.op = "complete"
    /\ last.from = PAUSED
    /\ status(the_task) = COMPLETED
    /\ Len(the_task.start_times) >= 2

\* C6: active_time is the time the task has spent ongoing: the closed
\* intervals plus, while it is running, the time since the last start.
C6_ActiveTimeIsTimeOngoing ==
    active_time(the_task, now) = ran

\* Two closed intervals of different positive lengths and a third, open one.
C6_Witness ==
    /\ Len(the_task.start_times) = 3
    /\ is_running(the_task)
    /\ now > the_task.start_times[3]
    /\ the_task.pause_times[1] - the_task.start_times[1] > 0
    /\ the_task.pause_times[2] - the_task.start_times[2]
            > the_task.pause_times[1] - the_task.start_times[1]

\* C7: the active time of a completed task is what it was before the step
\* that completed it or found it completed, whether the clock moved or a
\* method was called.
C7_NoActiveTimeAfterComplete ==
    [][the_task'.is_complete
       => active_time(the_task', now') = active_time(the_task, now)]_vars

\* A task completed while ongoing, with time on its open interval, that was
\* called again after the clock had moved on.
C7_Witness ==
    /\ the_task.is_complete
    /\ last.from = COMPLETED
    /\ last.op \in {"start", "resume", "pause", "complete"}
    /\ active_time(the_task, now) > 0
    /\ the_task.pause_times[Len(the_task.pause_times)]
            > the_task.start_times[Len(the_task.start_times)]
    /\ now > the_task.pause_times[Len(the_task.pause_times)]

\* What save_tasks dumps for the mapping tsk.
Dumped(tsk) == JsonFile([tid \in DOMAIN tsk |-> to_dict(tsk[tid])])

\* C8: every step that leaves the with block, after a command that returned
\* and after one that raised or called sys.exit, makes the one save of the
\* process, which writes the whole mapping as the command left it, and lets
\* the exception of the command out to the caller.
C8_SaveOnEveryExit ==
    [][(pc \in {"body", "raised"} /\ pc' = "idle")
       => /\ saves = 0
          /\ saves' = 1
          /\ file' = Dumped(tasks)
          /\ result' = [at |-> "exit", raised |-> exc]]_vars

\* A process that found no file, added a task, then ended on sys.exit: the
\* task is in the file and SystemExit reached the caller.
C8_Witness ==
    /\ pc = "idle"
    /\ result = [at |-> "exit", raised |-> <<"SystemExit">>]
    /\ saves = 1
    /\ bak = NoFile
    /\ tasks # <<>>
    /\ file = Dumped(tasks)

\* C9: a process that starts on the file the process before it saved loads
\* the mapping that process held: the same ids, each task equal in every
\* field.
C9_SaveLoadRoundTrip ==
    [][(pc = "idle" /\ saves = 1 /\ pc' = "body") => tasks' = tasks]_vars

\* A loaded store of two tasks: one with every optional field set, one with
\* none, one of them started at a time with a fraction of a second.
C9_Witness ==
    /\ pc = "body"
    /\ saves = 0
    /\ calls = MaxCalls
    /\ file = Dumped(tasks)
    /\ Cardinality(DOMAIN tasks) = 2
    /\ \E a, b \in DOMAIN tasks :
        /\ tasks[a].target_time = <<>> /\ tasks[a].desc = <<>>
        /\ tasks[b].target_time # <<>> /\ tasks[b].dead_time # <<>>
        /\ tasks[b].desc # <<>>
        /\ tasks[b].created_time = 0
        /\ tasks[a].created_time = 1000
    /\ \E c \in DOMAIN tasks : tasks[c].start_times = <<1>>

\* A file load_tasks cannot take a mapping of tasks from: no file, bytes that
\* are no text, text that is no JSON, or JSON with a record from_dict cannot
\* read.
Unusable(f) ==
    \/ f.kind \in {"missing", "malformed", "empty", "undecodable"}
    \/ f.kind = "json" /\ \E tid \in DOMAIN f.data : from_dict_raises(f.data[tid])

\* C10: when the durable file does not exist or its content is invalid in any
\* way, load_tasks raises nothing, the with block is entered and the mapping
\* is empty.
C10_LoadIsLenient ==
    (result.at = "enter" /\ Unusable(file))
        => /\ result.raised = <<>>
           /\ pc \in {"body", "raised"}
           /\ calls = 0 => tasks = <<>>

\* C11: every save leaves in the backup what the durable file held just
\* before it, whatever the backup held, and in the durable file the dump of
\* the whole mapping; when there was no durable file the save raises nothing
\* and the backup stays as it was.
C11_BackupMirrorsPreSave ==
    [][(saves' = saves + 1)
       => /\ file' = Dumped(tasks)
          /\ (file.kind # "missing" => bak' = file)
          /\ (file.kind = "missing" =>
                (bak' = bak /\ result'.raised = exc))]_vars

\* The third save of a run: the backup holds the two tasks the second save
\* wrote, in place of the one task it held, and the file holds one task.
C11_Witness ==
    /\ pc = "idle"
    /\ saves = 1
    /\ bak.kind = "json"
    /\ file.kind = "json"
    /\ Cardinality(DOMAIN bak.data) = 2
    /\ Cardinality(DOMAIN file.data) = 1

\* C12: a lookup by prefix returns the task of the one id that starts with
\* the prefix; when no id starts with it (also in an empty store) it fails
\* as not found, when two or more do it fails as ambiguous, and in both
\* failures no task and no entry of the mapping changes.
C12_PrefixLookup ==
    [][(last'.op \in Commands \cup {"get"})
       => LET p == last'.args
              m == {tid \in DOMAIN tasks : startswith(tid, p)}
          IN  /\ (Cardinality(m) = 1 =>
                    /\ result'.raised = <<>>
                    /\ DOMAIN tasks' = DOMAIN tasks
                    /\ \A tid \in DOMAIN tasks \ m : tasks'[tid] = tasks[tid]
                    /\ \A tid \in m :
                        IF last'.op = "get"
                        THEN result'.printed = <<tid>> /\ tasks' = tasks
                        ELSE tasks'[tid] = apply(last'.op, tasks[tid], now))
              /\ (Cardinality(m) = 0 =>
                    /\ result'.raised = <<"SystemExit">>
                    /\ result'.printed = <<"No task found">>
                    /\ tasks' = tasks)
              /\ (Cardinality(m) >= 2 =>
                    /\ result'.raised = <<"SystemExit">>
                    /\ result'.printed = <<"Ambiguous ID">>
                    /\ tasks' = tasks)]_vars

\* complete was called with a prefix that two of three stored ids start
\* with, one of them the id of an ongoing task.
C12_Witness ==
    /\ last.op = "complete"
    /\ last.args = <<0>>
    /\ result.printed = <<"Ambiguous ID">>
    /\ DOMAIN tasks = StoreIds
    /\ status(tasks[<<0, 1>>]) = ONGOING

\* C13: list_all prints each task at most once, in ascending order of
\* created_time: with a filter_status the tasks of that status, whatever
\* show_all is; with none and show_all false the tasks that are not
\* completed; with none and show_all true every task. It changes no task
\* and no entry of the mapping.
C13_ListAll ==
    [][(last'.op = "list_all")
       => LET out == result'.printed
              a == last'.args
              wanted == {tid \in DOMAIN tasks :
                           IF a.filter_status # <<>>
                           THEN status(tasks[tid]) = a.filter_status[1]
                           ELSE IF ~a.show_all
                           THEN status(tasks[tid]) \in {PENDING, ONGOING, PAUSED}
                           ELSE TRUE}
          IN  /\ tasks' = tasks
              /\ {out[i] : i \in DOMAIN out} = wanted
              /\ Len(out) = Cardinality(wanted)
              /\ \A i, j \in DOMAIN out :
                    (i < j) => (tasks[out[i]].created_time
                                    <= tasks[out[j]].created_time)]_vars

\* A store of three tasks listed with neither argument: the completed one is
\* left out, and the two printed come in the reverse of the order the dict
\* holds them in.
C13_Witness ==
    /\ last.op = "list_all"
    /\ DOMAIN tasks = StoreIds
    /\ ~last.args.show_all
    /\ last.args.filter_status = <<>>
    /\ Len(result.printed) = 2
    /\ \E i, j \in 1 .. 3 :
        /\ i < j
        /\ last.args.order[i] = result.printed[2]
        /\ last.args.order[j] = result.printed[1]
    /\ tasks[result.printed[1]].created_time
            < tasks[result.printed[2]].created_time
    /\ status(tasks[result.printed[1]]) = PAUSED
    /\ status(tasks[result.printed[2]]) = PENDING

\* C14: remove with an id of the mapping deletes that entry and leaves every
\* other entry as it was; with an id that is not in the mapping it raises
\* KeyError and leaves the mapping as it was.
C14_Remove ==
    [][(last'.op = "remove")
       => LET id == last'.args
          IN  IF id \in DOMAIN tasks
              THEN /\ result'.raised = <<>>
                   /\ DOMAIN tasks' = DOMAIN tasks \ {id}
                   /\ \A tid \in DOMAIN tasks' : tasks'[tid] = tasks[tid]
              ELSE /\ result'.raised = <<"KeyError">>
                   /\ tasks' = tasks]_vars

\* remove was called with an id that is not among the two stored ones.
C14_Witness ==
    /\ last.op = "remove"
    /\ last.args \notin DOMAIN tasks
    /\ result.raised = <<"KeyError">>
    /\ Cardinality(DOMAIN tasks) = 2

\* C15: a task added with no target time has target_time = created_time plus
\* 24 hours.
C15_DefaultTargetIsCreatedPlusDay ==
    (last.op = "add" /\ last.args.target = <<>>)
        => (tasks[last.id].target_time
                = <<tasks[last.id].created_time + OneDay>>)

\* C17: save_tasks writes the whole mapping to the durable file and raises
\* nothing, whether the backup copy was made, there was no file to copy, or
\* the copy failed.
C17_BackupIsBestEffort ==
    (last.op = "save_tasks")
        => (file = Dumped(tasks) /\ result.raised = <<>>)

\* C18: while the clock never goes back, the recorded times interleave in
\* order: each start is no later than the pause that closes it and each
\* pause no later than the start that follows it.
C18_TimestampsInterleave ==
    /\ \A i \in 1 .. Len(the_task.pause_times) :
        (i <= Len(the_task.start_times))
            => (the_task.start_times[i] <= the_task.pause_times[i])
    /\ \A i \in 1 .. Len(the_task.pause_times) :
        (i + 1 <= Len(the_task.start_times))
            => (the_task.pause_times[i] <= the_task.start_times[i + 1])

\* Two closed intervals and a third start, all five times different.
C18_Witness ==
    /\ Len(the_task.start_times) = 3
    /\ Len(the_task.pause_times) = 2
    /\ the_task.start_times[1] < the_task.pause_times[1]
    /\ the_task.pause_times[1] < the_task.start_times[2]
    /\ the_task.start_times[2] < the_task.pause_times[2]
    /\ the_task.pause_times[2] < the_task.start_times[3]

\* 0 <= active_time <= elapsed_time, and both are 0 before the first start.
ActiveWithinElapsed(t, n) ==
    /\ 0 <= active_time(t, n)
    /\ active_time(t, n) <= elapsed_time(t, n)
    /\ (t.start_times = <<>>) => (active_time(t, n) = 0 /\ elapsed_time(t, n) = 0)

\* C19: while the clock never goes back, 0 <= active_time <= elapsed_time in
\* every state, both are 0 for a task never started, and when the clock
\* moves on over a started task that is paused or completed elapsed_time
\* grows by the advance and active_time stays.
C19_ActiveWithinElapsed ==
    /\ ActiveWithinElapsed(the_task, now)
    /\ [][
          /\ ActiveWithinElapsed(the_task', now')
          /\ (/\ now' > now
              /\ the_task.start_times # <<>>
              /\ status(the_task) \in {PAUSED, COMPLETED})
                => (/\ elapsed_time(the_task', now')
                            = elapsed_time(the_task, now) + (now' - now)
                    /\ active_time(the_task', now') = active_time(the_task, now))
       ]_vars

\* The clock moved on over a completed task that had been resumed once:
\* elapsed_time is ahead of active_time.
C19_Witness ==
    /\ last.op = "tick"
    /\ last.from = COMPLETED
    /\ Len(the_task.start_times) = 2
    /\ active_time(the_task, now) > 0
    /\ elapsed_time(the_task, now) > active_time(the_task, now)

\* Content json.load cannot parse: bytes that are no text, text that is no
\* JSON.
Unparseable(f) == f.kind \in {"undecodable", "malformed", "empty"}

\* C20: a process that starts on a durable file with unparseable content
\* enters its with block with the empty mapping, and at its end, also when
\* its command changed nothing, the durable file holds the dump of the tasks
\* created since (of the empty mapping if none) and the backup holds the
\* unparseable content in place of whatever it held.
C20_InvalidFileIsReplaced ==
    [][
       /\ (pc = "idle" /\ Unparseable(file) /\ result'.at = "enter")
            => (pc' = "body" /\ tasks' = <<>>)
       /\ (pc \in {"body", "raised"} /\ Unparseable(file) /\ pc' = "idle")
            => (file' = Dumped(tasks) /\ bak' = file)
      ]_vars

\* Both processes have saved and ended.
BothDone == \A p \in Procs : pc[p] = "done"

\* C16 as stated: once both processes have ended, the durable file holds
\* the mapping of the process that wrote last, and neither has raised.
C16_LastWriterWins ==
    BothDone
        => /\ file = Dumped(tasks[last.from])
           /\ \A p \in Procs : result[p].raised = <<>>

\* C16, amended: once both processes have ended neither has raised, and
\* when neither had the file open while the other had, the durable file
\* holds the mapping of the process that wrote last.
C16_LastWriterWinsUnlessOverlap ==
    BothDone
        => /\ \A p \in Procs : result[p].raised = <<>>
           /\ ~last.overlap => file = Dumped(tasks[last.from])

\* Both processes loaded the same file and each added a task; their saves
\* did not overlap, and the file holds the task of the last writer without
\* the task of the other.
C16_Witness ==
    /\ BothDone
    /\ ~last.overlap
    /\ \A p \in Procs : NewId(p) \in DOMAIN tasks[p]
    /\ file = Dumped(tasks[last.from])
    /\ NewId(Other(last.from)) \notin DOMAIN file.data

====
